---- MODULE Spec2Model ----
(***************************************************************************)
(* Interlayer tool clustering of the PrusaSlicer fork (GCode.cpp):         *)
(* GCode::layer_batch_labeling (node store, cluster scheduler, batch       *)
(* tagging, support merger), GCode::ATC_plan_wipe_toolchange2 (wipe-tower  *)
(* planner) and the emission loop of GCode::atc_process_layers.            *)
(*                                                                         *)
(* Lengths are integers (one unit = 0.1 mm for heights); overlap areas are *)
(* integers in the unit of critical_intersection.  Layer and region        *)
(* indices are 0-based as in the C++ code; TLA+ sequences are 1-based, so  *)
(* element i of a C++ list is element i + 1 of the sequence.               *)
(***************************************************************************)
EXTENDS Integers, Sequences, FiniteSets, TLC

\* ---------------------------------------------------------------- bounds
\* Largest number of entries of layers_to_print explored by Init.
MaxRL == 3

\* Numbers of print regions (colours) explored.
ColorCounts == {1, 2}
\* Layer heights explored: the first layer and the other layers.
FirstLayerHeights == {1}
LayerHeights == {1, 4}
\* atc_safe_batch_height values explored.
SafeHeights == {2, 3}
\* Overlap areas returned by the geometry oracle, and the critical area.
OverlapValues == {1, 2}
CriticalValues == {1}

NULL == 0

VARIABLES
    print,                  \* the sliced print: the inputs of the export
    pc,                     \* position of the export in atc_process_layers
    printing_map_initial,   \* Node Store of object units
    support_map,            \* store of support units
    printing_map_batched,   \* the schedule built by the main loop
    last_node,              \* the cursor (index into printing_map_initial or NULL)
    atc_running_height,     \* running height accumulator
    ATC_printing_map,       \* FINAL_MAP
    printing_node_idx,      \* loop index of the merger, the planner and the driver
    prev_region_idx,        \* planner: region of the previous object entry
    atc_wipe_plan_brick_idx,\* planner: brick iterator
    atc_wipe_plan_layer,    \* planner: wipe-tower layer of the next request
    atc_tool_change_counter,\* planner: number of registered tool changes
    planned,                \* requests passed to WipeTower::plan_toolchange
    total_toolchanges,      \* print statistic (-1 while not reported)
    atc_wiping_layer_idx,   \* driver: wipe-tower layer of the next fragment
    atc_wiping_brick_idx,   \* driver: brick iterator
    m_writer_extruder,      \* the active tool of the G-code writer
    canceled,               \* the cancellation flag of the print
    canceled_at,            \* where the export was when the flag was set
    pipeline,               \* the tbb pipeline of process_layers
    output_stream           \* what the emission driver has written

vars == <<print, pc, printing_map_initial, support_map, printing_map_batched,
          last_node, atc_running_height, ATC_printing_map, printing_node_idx,
          prev_region_idx, atc_wipe_plan_brick_idx, atc_wipe_plan_layer,
          atc_tool_change_counter, planned, total_toolchanges,
          atc_wiping_layer_idx, atc_wiping_brick_idx, m_writer_extruder,
          canceled, canceled_at, pipeline, output_stream>>

schedVars == <<printing_map_initial, support_map, printing_map_batched,
               last_node, atc_running_height>>
planVars == <<prev_region_idx, atc_wipe_plan_brick_idx, atc_wipe_plan_layer,
              atc_tool_change_counter, planned, total_toolchanges>>
emitVars == <<atc_wiping_layer_idx, atc_wiping_brick_idx, m_writer_extruder,
              output_stream>>

\* ------------------------------------------------------------ the inputs

\* One entry of collect_layers_to_print: an object layer, a support layer or
\* both; perimeters = the regions whose perimeters.entities is not empty.
LayerToPrint(nc) ==
    { [object_layer |-> o, support_layer |-> s, perimeters |-> p] :
        o \in BOOLEAN, s \in BOOLEAN, p \in SUBSET (0 .. nc - 1) }

ValidLayerToPrint(l) ==
    /\ l.object_layer \/ l.support_layer
    /\ ~l.object_layer => l.perimeters = {}

\* Entries of layers_to_print that hold an object layer, in order: element
\* BL + 1 is the index RL of the object layer with batch-layer index BL.
RECURSIVE ObjectRLs(_, _)
ObjectRLs(layers, RL) ==
    IF RL >= Len(layers) THEN <<>>
    ELSE (IF layers[RL + 1].object_layer THEN <<RL>> ELSE <<>>)
         \o ObjectRLs(layers, RL + 1)

\* print.get_object(0)->layers().size()
max_layers_in_object(p) == Len(ObjectRLs(p.layers, 0))

\* The regions with perimeters of the object layer BL.
PerimetersAt(layers, BL) ==
    LET rls == ObjectRLs(layers, 0)
    IN  IF BL < Len(rls) THEN layers[rls[BL + 1] + 1].perimeters ELSE {}

\* The pairs (region r of object layer BL + 1, region c of object layer BL)
\* of printable regions; every other pair has an empty footprint.
OverlapPairs(nc, layers) ==
    { t \in (0 .. Len(layers)) \X (0 .. nc - 1) \X (0 .. nc - 1) :
        /\ t[2] \in PerimetersAt(layers, t[1] + 1)
        /\ t[3] \in PerimetersAt(layers, t[1])
        /\ t[2] # t[3] }

\* ATC_check_region_intersection2(region_candidate, region_below) / 1e+10 for
\* the candidate (BL + 1, r) and the region c of layer BL.
region_intersection(p, BL, r, c) ==
    IF <<BL, r, c>> \in DOMAIN p.overlap THEN p.overlap[<<BL, r, c>>] ELSE 0

\* The layer height truncated to a unit ten times coarser.
LayerHeight_truncated(p, BL) ==
    IF BL = 0 THEN p.first_layer_height \div 10 ELSE p.layer_height \div 10

\* print.get_object(0)->layers()[BL]->height
LayerHeight(p, BL) == IF BL = 0 THEN p.first_layer_height ELSE p.layer_height

\* ------------------------------------------------------------ Node Store
\* atc_linked_list_UPD::node_search(head, 0): index of the first node whose
\* state is 0, NULL when there is none.
RECURSIVE node_search_state(_, _)
node_search_state(map, i) ==
    IF i > Len(map) THEN NULL
    ELSE IF map[i].state = 0 THEN i
    ELSE node_search_state(map, i + 1)

\* atc_linked_list_UPD::node_search(head, Blayer, region): index of the node
\* with that key, NULL when there is none.
RECURSIVE node_search_key(_, _, _, _)
node_search_key(map, BL, R, i) ==
    IF i > Len(map) THEN NULL
    ELSE IF map[i].Blayer = BL /\ map[i].region = R THEN i
    ELSE node_search_key(map, BL, R, i + 1)

node_search(map, BL, R) == node_search_key(map, BL, R, 1)

\* A region loop without the test of perimeters.entities: one node per
\* region of the layer.
RegionNodes_all(nc, l, RL, BL, R) ==
    [i \in 1 .. (IF R >= nc THEN 0 ELSE nc - R) |->
        [Rlayer |-> RL, Blayer |-> BL, region |-> R + i - 1, state |-> 0]]

\* The population loops of layer_batch_labeling: one node per object layer
\* and region with perimeters, appended layer by layer, region by region.
RECURSIVE RegionNodes(_, _, _, _, _)
RegionNodes(nc, l, RL, BL, R) ==
    IF R >= nc THEN <<>>
    ELSE (IF R \in l.perimeters
          THEN << [Rlayer |-> RL, Blayer |-> BL, region |-> R, state |-> 0] >>
          ELSE <<>>)
         \o RegionNodes(nc, l, RL, BL, R + 1)

RECURSIVE PopulateInitial(_, _, _, _)
PopulateInitial(nc, layers, RL, BL) ==
    IF RL >= Len(layers) THEN <<>>
    ELSE IF layers[RL + 1].object_layer
         THEN RegionNodes(nc, layers[RL + 1], RL, BL, 0)
              \o PopulateInitial(nc, layers, RL + 1, BL + 1)
         ELSE PopulateInitial(nc, layers, RL + 1, BL)

RECURSIVE PopulateSupport(_, _)
PopulateSupport(layers, RL) ==
    IF RL >= Len(layers) THEN <<>>
    ELSE (IF layers[RL + 1].support_layer
          THEN << [Rlayer |-> RL, Blayer |-> -1, region |-> -1, state |-> 0] >>
          ELSE <<>>)
         \o PopulateSupport(layers, RL + 1)

\* ------------------------------------------------------ Cluster Scheduler
\* A schedule entry as appended to printing_map_batched.  via records which
\* append site of the loop produced it (the head append or the candidate
\* append).
BatchedEntry(n, how) ==
    [Rlayer |-> n.Rlayer, Blayer |-> n.Blayer, region |-> n.region,
     batch |-> 0, need_wipe |-> FALSE, via |-> how]

\* A first colour loop that counts the processed neighbours instead of the
\* unprocessed ones.
overall_intersections_processed(p, map, BL, R) ==
    Cardinality({ color \in 0 .. p.colors - 1 :
        /\ node_search(map, BL, color) # NULL
        /\ color # R
        /\ region_intersection(p, BL, R, color) > p.critical
        /\ map[node_search(map, BL, color)].state = 1 })

\* First colour loop: the number of other regions of the current layer that
\* are not processed and overlap the candidate by more than the critical area.
overall_intersections_below(p, map, BL, R) ==
    Cardinality({ color \in 0 .. p.colors - 1 :
        /\ node_search(map, BL, color) # NULL
        /\ color # R
        /\ region_intersection(p, BL, R, color) > p.critical
        /\ map[node_search(map, BL, color)].state = 0 })

\* Second colour loop, from colour `color` on, with the cursor value `last`
\* reached so far.  Result: the cursor and whether the candidate is appended.
RECURSIVE ColorLoop(_, _, _, _, _, _, _)
ColorLoop(p, map, BL, R, cand, color, last) ==
    IF color >= p.colors THEN [last |-> last, accept |-> FALSE]
    ELSE IF node_search(map, BL, color) # NULL
    THEN LET st == map[node_search(map, BL, color)].state
             ri == region_intersection(p, BL, R, color)
         IN  IF color # R /\ ri > p.critical /\ st = 0
             THEN [last |-> NULL, accept |-> FALSE]
             ELSE IF color # R /\ ri <= p.critical
                     /\ overall_intersections_below(p, map, BL, R) = 0
             THEN [last |-> cand, accept |-> TRUE]
             ELSE ColorLoop(p, map, BL, R, cand, color + 1, last)
    ELSE ColorLoop(p, map, BL, R, cand, color + 1, NULL)

\* An append that leaves the state of the node at 0.
MarkProcessed_skipped(map, i) == map

\* node_search(...)->state = 1 after an append.
MarkProcessed(map, i) == [map EXCEPT ![i].state = 1]

\* A cursor selection that takes the head of the list instead of the first
\* node with state 0.
CurrentNode_head(initial, last) ==
    IF last # NULL THEN last ELSE IF Len(initial) > 0 THEN 1 ELSE NULL

\* A cursor selection that takes the last node with state 0 instead of the
\* first one.
CurrentNode_latest(initial, last) ==
    IF last # NULL THEN last
    ELSE IF \E i \in 1 .. Len(initial) : initial[i].state = 0
    THEN CHOOSE i \in 1 .. Len(initial) :
            /\ initial[i].state = 0
            /\ \A j \in i + 1 .. Len(initial) : initial[j].state # 0
    ELSE NULL

\* The node of an iteration: the cursor, or the first node with state 0.
CurrentNode(initial, last) ==
    IF last # NULL THEN last ELSE node_search_state(initial, 1)

\* A test of the candidate that looks at the layer count only.
CandidateMissing_range_only(p, initial, BL, R) ==
    BL + 1 >= max_layers_in_object(p)

\* if (candidate_Blayer_idx >= max_layers_in_object || node_search(...) == NULL)
CandidateMissing(p, initial, BL, R) ==
    BL + 1 >= max_layers_in_object(p) \/ node_search(initial, BL + 1, R) = NULL

\* One iteration of the main loop of layer_batch_labeling.
SchedIteration(p, initial, batched, last, height) ==
    LET node == CurrentNode(initial, last)
        cur  == initial[node]
        BL   == cur.Blayer
        R    == cur.region
        head == cur.state = 0
        \* if (node->state == 0) { append; last_node = node; state = 1; height += ... }
        batched1 == IF head THEN Append(batched, BatchedEntry(cur, "head")) ELSE batched
        initial1 == IF head THEN MarkProcessed(initial, node) ELSE initial
        last1    == IF head THEN node ELSE last
        height1  == IF head THEN height + LayerHeight(p, BL) ELSE height
        cand     == node_search(initial1, BL + 1, R)
        inrange  == BL + 1 < max_layers_in_object(p)
        loop     == IF cand # NULL /\ inrange
                    THEN ColorLoop(p, initial1, BL, R, cand, 0, last1)
                    ELSE [last |-> last1, accept |-> FALSE]
        batched2 == IF loop.accept
                    THEN Append(batched1, BatchedEntry(initial1[cand], "cont"))
                    ELSE batched1
        initial2 == IF loop.accept THEN MarkProcessed(initial1, cand) ELSE initial1
        height2  == IF loop.accept THEN height1 + LayerHeight(p, BL) ELSE height1
    IN  IF CandidateMissing(p, initial2, BL, R)
        THEN [initial |-> initial2, batched |-> batched2, last |-> NULL, height |-> height2]
        ELSE IF height2 >= p.safe
        THEN [initial |-> initial2, batched |-> batched2, last |-> NULL, height |-> 0]
        ELSE [initial |-> initial2, batched |-> batched2, last |-> loop.last, height |-> height2]


\* Batch tagging pass over printing_map_batched, from entry i on.
RECURSIVE TagBatches(_, _, _, _)
TagBatches(batched, i, running_batch, last_region) ==
    IF i > Len(batched) THEN batched
    ELSE LET changed == batched[i].region # last_region
             b == IF changed THEN running_batch + 1 ELSE running_batch
         IN  TagBatches([batched EXCEPT ![i].batch = b], i + 1, b,
                        IF changed THEN batched[i].region ELSE last_region)

\* atc_temp_tool_changes of the tagging pass.
RECURSIVE atc_temp_tool_changes(_, _, _)
atc_temp_tool_changes(batched, i, last_region) ==
    IF i > Len(batched) THEN 0
    ELSE IF batched[i].region # last_region
         THEN 1 + atc_temp_tool_changes(batched, i + 1, batched[i].region)
         ELSE atc_temp_tool_changes(batched, i + 1, last_region)

\* A scan with the anchor condition in both directions: it takes the first
\* support node that is not placed, whatever its layer.
SupportScan_either(supports, RL, k) ==
    IF \E j \in k .. Len(supports) :
          supports[j].state = 0
          /\ (RL - supports[j].Rlayer <= 1 \/ supports[j].Rlayer - RL <= 1)
    THEN CHOOSE j \in k .. Len(supports) :
            /\ supports[j].state = 0
            /\ \A h \in k .. j - 1 : supports[h].state # 0
    ELSE NULL

\* --------------------------------------------------------- Schedule Merger
\* The scan of support_map after an object entry of layer RL: index of the
\* first support node that is not placed and lies at most one layer above.
RECURSIVE SupportScan(_, _, _)
SupportScan(supports, RL, k) ==
    IF k > Len(supports) THEN NULL
    ELSE IF supports[k].state = 0 /\ supports[k].Rlayer - RL <= 1 THEN k
    ELSE SupportScan(supports, RL, k + 1)

\* The object entry appended to FINAL_MAP for entry o of the batched schedule.
FinalObject(o) ==
    [object |-> TRUE, Rlayer |-> o.Rlayer, Blayer |-> o.Blayer,
     region |-> o.region, batch |-> o.batch, need_wipe |-> o.need_wipe]

\* A support entry that keeps the region of its support node (-1).
FinalSupport_own_region(s, o) ==
    [object |-> FALSE, Rlayer |-> s.Rlayer, Blayer |-> s.Blayer,
     region |-> s.region, batch |-> o.batch, need_wipe |-> o.need_wipe]

\* The support entry appended to FINAL_MAP after the object entry o.
FinalSupport(s, o) ==
    [object |-> FALSE, Rlayer |-> s.Rlayer, Blayer |-> s.Blayer,
     region |-> o.region, batch |-> o.batch, need_wipe |-> o.need_wipe]


\* ---------------------------------------------------------- initial state
\* The reference case: 3 colours, 8 object layers, region 0 printable on
\* layers 0..6, region 1 on layers 2..6, region 2 on layers 3..7.
\* --------------------------------------------- the default pipeline
\* The filters of process_layers: generator, spiral_vase, cooling,
\* find_replace, output.
PipelineStages == {"generator", "spiral_vase", "cooling", "find_replace", "output"}

\* tbb::parallel_pipeline(12, ...): the largest number of tokens in flight.
max_number_of_live_tokens == 12

\* The filters joined by process_layers, in order: spiral_vase and
\* find_replace only when the export has them.
PipelineOf(pl) ==
    <<"generator">>
    \o (IF pl.m_spiral_vase THEN <<"spiral_vase">> ELSE <<>>)
    \o <<"cooling">>
    \o (IF pl.m_find_replace THEN <<"find_replace">> ELSE <<>>)
    \o <<"output">>

\* A filter that takes any token waiting for it (serial_out_of_order).
FilterInput_out_of_order(pl, k) ==
    { t \in pl.tokens : t.at = k - 1 }

\* The tokens filter k of the pipeline may take next.  Every filter is
\* serial_in_order: it takes the tokens in the order the first filter
\* issued them, so only the token that follows the last one it processed.
FilterInput(pl, k) ==
    { t \in pl.tokens : t.at = k - 1 /\ t.id = Len(pl.log[PipelineOf(pl)[k]]) + 1 }

ReferenceStack ==
    [RL \in 1 .. 8 |->
        [object_layer |-> TRUE, support_layer |-> FALSE,
         perimeters |-> { r \in 0 .. 2 :
                           \/ r = 0 /\ RL - 1 \in 0 .. 6
                           \/ r = 1 /\ RL - 1 \in 2 .. 6
                           \/ r = 2 /\ RL - 1 \in 3 .. 7 }]]

\* The stacks of n layers_to_print entries of a print of nc colours; n = 0
\* stands for the reference stack.
Stacks(nc, n, withSupport) ==
    IF n = 0 THEN {ReferenceStack}
    ELSE [1 .. n -> { l \in LayerToPrint(nc) :
                        /\ ValidLayerToPrint(l)
                        /\ l.support_layer => withSupport }]

\* The overlap tables of a stack with values in ovs.  For the reference
\* stack the overlap of two regions is the same on every layer.
OverlapTables(nc, layers, ovs) ==
    IF layers = ReferenceStack
    THEN { [t \in OverlapPairs(nc, layers) |-> f[<<t[2], t[3]>>]] :
             f \in [{ rc \in (0 .. nc - 1) \X (0 .. nc - 1) : rc[1] # rc[2] } -> ovs] }
    ELSE [OverlapPairs(nc, layers) -> ovs]

\* The state at the entry of atc_process_layers, for the prints described
\* by the parameter sets: the number of colours, the stack, the two layer
\* heights, the configuration values and the overlap table.
InitAt(ncs, ns, withSupport, h0s, hs, safes, ovs, smes, tools, entry, filters, solubles) ==
    /\ \E nc \in ncs, n \in ns, h0 \in h0s, h \in hs, sf \in safes,
          cr \in CriticalValues, sme \in smes, sol \in solubles :
         \E layers \in Stacks(nc, n, withSupport) :
           \E ov \in OverlapTables(nc, layers, ovs) :
              print = [colors |-> nc, layers |-> layers,
                       first_layer_height |-> h0, layer_height |-> h,
                       safe |-> sf, critical |-> cr, overlap |-> ov,
                       support_material_extruder |-> sme,
                       ATC_soluble_supports |-> sol]
    \* set_extruder(initial_extruder_id) of the export preamble
    /\ m_writer_extruder \in tools \cap (0 .. print.colors - 1)
    \* throw_if_canceled() before atc_process_layers has passed
    /\ canceled = FALSE
    /\ canceled_at = "never"
    /\ pc = entry
    /\ \E vase \in filters, replace \in filters :
          pipeline = [m_spiral_vase |-> vase, m_find_replace |-> replace,
                      layer_to_print_idx |-> 0, stopped |-> FALSE,
                      tokens |-> {}, log |-> [st \in PipelineStages |-> <<>>]]
    /\ printing_map_initial = <<>>
    /\ support_map = <<>>
    /\ printing_map_batched = <<>>
    /\ last_node = NULL
    /\ atc_running_height = 0
    /\ ATC_printing_map = <<>>
    /\ printing_node_idx = 0
    /\ prev_region_idx = 0
    /\ atc_wipe_plan_brick_idx = -1
    /\ atc_wipe_plan_layer = 1
    /\ atc_tool_change_counter = 0
    /\ planned = <<>>
    /\ total_toolchanges = -1
    /\ atc_wiping_layer_idx = 0
    /\ atc_wiping_brick_idx = -1
    /\ output_stream = <<>>

\* The clustered export: _do_batched_export calls atc_process_layers.
InitOf(ncs, ns, withSupport, h0s, hs, safes, ovs, smes, tools) ==
    InitAt(ncs, ns, withSupport, h0s, hs, safes, ovs, smes, tools,
           "populate", {FALSE}, {FALSE})

\* ----------------------------------------------------------------- actions
\* layer_batch_labeling, the two population loops.
Populate ==
    /\ pc = "populate"
    /\ printing_map_initial' = PopulateInitial(print.colors, print.layers, 0, 0)
    /\ support_map' = PopulateSupport(print.layers, 0)
    /\ pc' = "sched"
    /\ UNCHANGED <<print, canceled, canceled_at, pipeline, printing_map_batched, last_node, atc_running_height,
                   ATC_printing_map, printing_node_idx, planVars, emitVars>>

\* One iteration of the main loop of layer_batch_labeling.
\* A loop condition that ends the loop one unit early.
LoopCondition_short(batched, initial) == Len(batched) < Len(initial) - 1

\* A loop condition that runs once more when the two counts are equal.
LoopCondition_inclusive(batched, initial) == Len(batched) <= Len(initial)

\* while (printing_map_batched.get_count() <= printing_map_initial.get_count() - 1)
LoopCondition(batched, initial) == Len(batched) <= Len(initial) - 1

SchedStep ==
    /\ pc = "sched"
    /\ LoopCondition(printing_map_batched, printing_map_initial)
    /\ IF CurrentNode(printing_map_initial, last_node) = NULL
       THEN \* node is a null pointer and is dereferenced
            /\ pc' = "crashed"
            /\ UNCHANGED schedVars
       ELSE LET it == SchedIteration(print, printing_map_initial,
                                     printing_map_batched, last_node,
                                     atc_running_height)
            IN  /\ printing_map_initial' = it.initial
                /\ printing_map_batched' = it.batched
                /\ last_node' = it.last
                /\ atc_running_height' = it.height
                /\ UNCHANGED <<pc, support_map>>
    /\ UNCHANGED <<print, canceled, canceled_at, pipeline, ATC_printing_map, printing_node_idx, planVars, emitVars>>

\* The main loop has ended: the batch tagging pass.
TagStep ==
    /\ pc = "sched"
    /\ ~LoopCondition(printing_map_batched, printing_map_initial)
    /\ printing_map_batched' = TagBatches(printing_map_batched, 1, 0, 0)
    /\ pc' = "merge"
    /\ printing_node_idx' = 0
    /\ UNCHANGED <<print, canceled, canceled_at, pipeline, printing_map_initial, support_map, last_node,
                   atc_running_height, ATC_printing_map, planVars, emitVars>>

\* One iteration of the merge loop: entry i of the batched schedule and the
\* support node anchored to it.
\* A support entry with the literal region 3 that does not take the batch of
\* its object entry.
FinalSupportSoluble_unbatched(s, o) ==
    [FinalSupport(s, o) EXCEPT !.region = 3, !.batch = 0]

\* The support entry of layer_batch_labeling_soluble_supports: the region
\* is the literal 3.
FinalSupportSoluble(s, o) == [FinalSupport(s, o) EXCEPT !.region = 3]

\* atc_process_layers runs one of the two labeling functions, by its
\* switch ATC_soluble_supports.
FinalSupportOf(p, s, o) ==
    IF p.ATC_soluble_supports THEN FinalSupportSoluble(s, o) ELSE FinalSupport(s, o)

MergeStep ==
    /\ pc = "merge"
    /\ printing_node_idx < Len(printing_map_batched)
    /\ LET o == printing_map_batched[printing_node_idx + 1]
           k == SupportScan(support_map, o.Rlayer, 1)
       IN  IF k = NULL
           THEN /\ ATC_printing_map' = Append(ATC_printing_map, FinalObject(o))
                /\ UNCHANGED support_map
           ELSE /\ ATC_printing_map' =
                       ATC_printing_map
                       \o << FinalObject(o), FinalSupportOf(print, support_map[k], o) >>
                /\ support_map' = [support_map EXCEPT ![k].state = 1]
    /\ printing_node_idx' = printing_node_idx + 1
    /\ UNCHANGED <<print, canceled, canceled_at, pipeline, pc, printing_map_initial, printing_map_batched,
                   last_node, atc_running_height, planVars, emitVars>>

\* this->ATC_printing_map = FINAL_MAP; ATC_plan_wipe_toolchange2 starts.
MergeFinish ==
    /\ pc = "merge"
    /\ ~(printing_node_idx < Len(printing_map_batched))
    /\ pc' = "plan"
    /\ printing_node_idx' = 0
    /\ prev_region_idx' = 0
    /\ atc_wipe_plan_brick_idx' = -1
    /\ atc_wipe_plan_layer' = 1
    /\ atc_tool_change_counter' = 0
    /\ planned' = <<>>
    /\ UNCHANGED <<print, canceled, canceled_at, pipeline, schedVars, ATC_printing_map, total_toolchanges, emitVars>>

\* The main loop of layer_batch_labeling run to its end: the schedule it
\* leaves (evaluated for inputs on which the loop ends).
RECURSIVE RunLoop(_, _, _, _, _)
RunLoop(p, initial, batched, last, height) ==
    IF ~LoopCondition(batched, initial) THEN batched
    ELSE LET it == SchedIteration(p, initial, batched, last, height)
         IN  RunLoop(p, it.initial, it.batched, it.last, it.height)

\* The merge loop of layer_batch_labeling from entry i of the batched
\* schedule on: FINAL_MAP entries with the support entries of the
\* non-soluble function (region of the object entry).
RECURSIVE MergeAll(_, _, _)
MergeAll(batched, supports, i) ==
    IF i > Len(batched) THEN <<>>
    ELSE LET o == batched[i]
             k == SupportScan(supports, o.Rlayer, 1)
         IN  IF k = NULL
             THEN << FinalObject(o) >> \o MergeAll(batched, supports, i + 1)
             ELSE << FinalObject(o), FinalSupport(supports[k], o) >>
                  \o MergeAll(batched, [supports EXCEPT ![k].state = 1], i + 1)

\* GCode::layer_batch_labeling as a function of the print: population, main
\* loop, batch tagging and merge; the value assigned to ATC_printing_map.
layer_batch_labeling(p) ==
    MergeAll(TagBatches(RunLoop(p, PopulateInitial(p.colors, p.layers, 0, 0),
                                <<>>, NULL, 0), 1, 0, 0),
             PopulateSupport(p.layers, 0), 1)

\* A wrap test against the number of bricks instead of the last brick index.
PlanWrap_late(p, brick) == brick >= p.colors - 1

\* if (atc_wipe_plan_brick_idx >= atc_wipe_plan_total_bricks - 1), with
\* atc_wipe_plan_total_bricks = all_regions().size() - 1.
PlanWrap(p, brick) == brick >= (p.colors - 1) - 1

\* One iteration of the loop of ATC_plan_wipe_toolchange2.  get_node(-1) is
\* outside the list: the write through its result either ends the process
\* or lands outside the schedule.
\* float atc_wiping_layer_height = 0.2, in units of 0.1 mm.
atc_wiping_layer_height == 2

\* A request with the two tools exchanged.
WipeRequest_swapped(plan_layer, old, new) ==
    [layer |-> plan_layer, print_z |-> atc_wiping_layer_height * plan_layer,
     layer_height |-> atc_wiping_layer_height, old_tool |-> new, new_tool |-> old]

\* The request passed to plan_toolchange(atc_print_z, atc_wiping_layer_height,
\* atc_old_tool, atc_new_tool, atc_wiping_volume); layer is the wipe-tower
\* layer the request is planned on.
WipeRequest(plan_layer, old, new) ==
    [layer |-> plan_layer, print_z |-> atc_wiping_layer_height * plan_layer,
     layer_height |-> atc_wiping_layer_height, old_tool |-> old, new_tool |-> new]

PlanStep ==
    /\ pc = "plan"
    /\ printing_node_idx < Len(ATC_printing_map)
    /\ LET printing_node == ATC_printing_map[printing_node_idx + 1]
           change == printing_node.Blayer # -1
                     /\ printing_node.region # prev_region_idx
           brick == atc_wipe_plan_brick_idx + 1
           wrap == PlanWrap(print, brick)
       IN  \/ /\ ~change
              /\ prev_region_idx' = IF printing_node.Blayer # -1
                                    THEN printing_node.region ELSE prev_region_idx
              /\ printing_node_idx' = printing_node_idx + 1
              /\ UNCHANGED <<pc, ATC_printing_map, atc_wipe_plan_brick_idx,
                             atc_wipe_plan_layer, atc_tool_change_counter, planned>>
           \/ /\ change
              /\ printing_node_idx >= 1 \/ pc' = "plan"
              /\ ATC_printing_map' =
                    IF printing_node_idx >= 1
                    THEN [ATC_printing_map EXCEPT ![printing_node_idx].need_wipe = TRUE]
                    ELSE ATC_printing_map
              /\ atc_wipe_plan_brick_idx' = IF wrap THEN -1 ELSE brick
              /\ atc_wipe_plan_layer' = IF wrap THEN atc_wipe_plan_layer + 1
                                        ELSE atc_wipe_plan_layer
              /\ planned' = Append(planned,
                                   WipeRequest(atc_wipe_plan_layer, prev_region_idx,
                                               printing_node.region))
              /\ atc_tool_change_counter' = atc_tool_change_counter + 1
              /\ prev_region_idx' = printing_node.region
              /\ printing_node_idx' = printing_node_idx + 1
              /\ pc' = "plan"
           \/ /\ change
              /\ printing_node_idx = 0
              /\ pc' = "crashed"
              /\ UNCHANGED <<ATC_printing_map, printing_node_idx, prev_region_idx,
                             atc_wipe_plan_brick_idx, atc_wipe_plan_layer,
                             atc_tool_change_counter, planned>>
    /\ UNCHANGED <<print, canceled, canceled_at, pipeline, schedVars, total_toolchanges, emitVars>>

\* End of ATC_plan_wipe_toolchange2 (number_of_toolchanges, reported as
\* total_toolchanges by _do_batched_export); the emission loop starts.
PlanFinish ==
    /\ pc = "plan"
    /\ ~(printing_node_idx < Len(ATC_printing_map))
    /\ total_toolchanges' = atc_tool_change_counter
    /\ pc' = "emit"
    /\ printing_node_idx' = 0
    /\ atc_wiping_layer_idx' = 0
    /\ atc_wiping_brick_idx' = -1
    /\ UNCHANGED <<print, canceled, canceled_at, pipeline, schedVars, ATC_printing_map, prev_region_idx,
                   atc_wipe_plan_brick_idx, atc_wipe_plan_layer,
                   atc_tool_change_counter, planned, m_writer_extruder,
                   output_stream>>

\* Extruder of the support of a layer when the current extruder is cur:
\* support_material_extruder - 1, or the current one for "don't care" (0).
support_extruder(p, cur) ==
    IF p.support_material_extruder = 0 THEN cur
    ELSE p.support_material_extruder - 1

\* by_extruder of one emission iteration holds an entry for the current
\* extruder: the support of the layer is assigned to it, or the region of
\* the node has extrusions in the object layer.
SupportByExtruder(p, l, cur) == l.support_layer /\ support_extruder(p, cur) = cur
IslandsByExtruder(l, cur) == l.object_layer /\ cur \in l.perimeters

\* One iteration of the emission loop of atc_process_layers.
\* The requests of wipe-tower layer l (0-based) in planning order: what the
\* generated tower holds as tool_changes[l].
tool_changes(pl, l) == SelectSeq(pl, LAMBDA r : r.layer = l + 1)

\* The tools the writer can hold after append_tcr wrote tool_changes[l][b]:
\* the new_tool of that result; an index outside the table reads an
\* arbitrary result.
FragmentTools(p, pl, l, b) ==
    IF b >= 0 /\ b < Len(tool_changes(pl, l))
    THEN {tool_changes(pl, l)[b + 1].new_tool}
    ELSE 0 .. p.colors - 1

\* The substitute for set_extruder in the driver: the early return on
\* !need_toolchange is commented out, so the tool-change code is appended
\* whatever the active tool is.
DriverToolchange(old, cur) == TRUE

\* A write that puts the string in front of what the stream holds.
OutputWrite_front(stream, piece) == <<piece>> \o stream

\* output_stream.write(...): the string is appended to the stream.
OutputWrite(stream, piece) == Append(stream, piece)

EmitStep ==
    /\ pc = "emit"
    /\ printing_node_idx < Len(ATC_printing_map)
    /\ LET printing_node == ATC_printing_map[printing_node_idx + 1]
           cur == printing_node.region
           l == print.layers[printing_node.Rlayer + 1]
           gcode == [kind |-> "gcode", node |-> printing_node_idx,
                     Rlayer |-> printing_node.Rlayer, extruder |-> cur,
                     support |-> SupportByExtruder(print, l, cur),
                     islands |-> IslandsByExtruder(l, cur),
                     layer |-> -1, brick |-> -1,
                     old_extruder |-> m_writer_extruder,
                     toolchange |-> DriverToolchange(m_writer_extruder, cur)]
           brick == atc_wiping_brick_idx + 1
           tcr == [kind |-> "tcr", node |-> printing_node_idx,
                   Rlayer |-> printing_node.Rlayer, extruder |-> cur,
                   support |-> FALSE, islands |-> FALSE,
                   layer |-> atc_wiping_layer_idx, brick |-> brick,
                   old_extruder |-> cur, toolchange |-> FALSE]
           \* int against size_t: both sides converted to unsigned
           wrap == IF print.colors >= 2 THEN brick >= print.colors - 2 ELSE FALSE
       IN  \/ /\ l.object_layer
              /\ cur \notin 0 .. print.colors - 1
              \* layer.regions()[print_region_idx] reads past the end of
              \* the vector: the process may end here
              /\ pc' = "crashed"
              /\ UNCHANGED <<printing_node_idx, emitVars>>
           \/ /\ pc' = pc
              /\ printing_node_idx' = printing_node_idx + 1
              /\ IF ~(SupportByExtruder(print, l, cur) \/ IslandsByExtruder(l, cur))
                 THEN \* objects_by_extruder_it == by_extruder.end(): continue;
                      \* m_writer.toolchange has already switched the writer
                      /\ m_writer_extruder' = cur
                      /\ UNCHANGED <<atc_wiping_layer_idx, atc_wiping_brick_idx,
                                     output_stream>>
                 ELSE IF printing_node.need_wipe
                 THEN /\ output_stream' = OutputWrite(OutputWrite(output_stream, gcode), tcr)
                      /\ m_writer_extruder' \in
                            FragmentTools(print, planned, atc_wiping_layer_idx, brick)
                      /\ atc_wiping_brick_idx' = IF wrap THEN -1 ELSE brick
                      /\ atc_wiping_layer_idx' = IF wrap THEN atc_wiping_layer_idx + 1
                                                 ELSE atc_wiping_layer_idx
                 ELSE /\ output_stream' = OutputWrite(output_stream, gcode)
                      /\ m_writer_extruder' = cur
                      /\ UNCHANGED <<atc_wiping_layer_idx, atc_wiping_brick_idx>>
    /\ UNCHANGED <<print, canceled, canceled_at, pipeline, schedVars,
                   ATC_printing_map, planVars>>

EmitFinish ==
    /\ pc = "emit"
    /\ ~(printing_node_idx < Len(ATC_printing_map))
    \* print.throw_if_canceled() of _do_batched_export after the driver
    /\ pc' = IF canceled THEN "canceled" ELSE "done"
    /\ UNCHANGED <<print, canceled, canceled_at, pipeline, schedVars, ATC_printing_map, printing_node_idx,
                   planVars, emitVars>>

\* The user cancels the print while the export is running: the flag is set
\* by another thread and read by throw_if_canceled only.
Cancel ==
    /\ pc \in {"populate", "sched", "merge", "plan", "emit"}
    /\ ~canceled
    /\ canceled' = TRUE
    /\ canceled_at' = pc
    /\ UNCHANGED <<print, pc, pipeline, schedVars, ATC_printing_map,
                   printing_node_idx, planVars, emitVars>>

\* The generator filter of process_layers: fc.stop() after the last layer,
\* else process_layer of the next entry of layers_to_print.
Generate ==
    /\ pc = "process_layers"
    /\ ~pipeline.stopped
    /\ Cardinality(pipeline.tokens) < max_number_of_live_tokens
    /\ IF pipeline.layer_to_print_idx = Len(print.layers)
       THEN pipeline' = [pipeline EXCEPT !.stopped = TRUE]
       ELSE LET id == pipeline.layer_to_print_idx + 1
            IN  pipeline' = [pipeline EXCEPT
                               !.layer_to_print_idx = id,
                               !.tokens = @ \cup {[id |-> id, at |-> 1]},
                               !.log["generator"] = Append(@, id)]
    /\ UNCHANGED <<print, pc, canceled, canceled_at, schedVars, ATC_printing_map,
                   printing_node_idx, planVars, emitVars>>

\* One of the later filters processes a token; the output filter writes
\* the string and the token leaves the pipeline.
Filter ==
    /\ pc = "process_layers"
    /\ \E k \in 2 .. Len(PipelineOf(pipeline)) :
         \E t \in FilterInput(pipeline, k) :
            LET name == PipelineOf(pipeline)[k]
                last == k = Len(PipelineOf(pipeline))
            IN  /\ pipeline' = [pipeline EXCEPT
                       !.tokens = (@ \ {t})
                                  \cup (IF last THEN {} ELSE {[id |-> t.id, at |-> k]}),
                       !.log[name] = Append(@, t.id)]
                /\ output_stream' =
                       IF last
                       THEN OutputWrite(output_stream,
                                        [kind |-> "layer", node |-> t.id - 1])
                       ELSE output_stream
    /\ UNCHANGED <<print, pc, canceled, canceled_at, schedVars, ATC_printing_map,
                   printing_node_idx, planVars, atc_wiping_layer_idx,
                   atc_wiping_brick_idx, m_writer_extruder>>

\* parallel_pipeline returns when the generator has stopped and every token
\* has left the pipeline.
PipelineFinish ==
    /\ pc = "process_layers"
    /\ pipeline.stopped
    /\ pipeline.tokens = {}
    /\ pc' = "done"
    /\ UNCHANGED <<print, canceled, canceled_at, pipeline, schedVars,
                   ATC_printing_map, printing_node_idx, planVars, emitVars>>

Next ==
    \/ Populate
    \/ SchedStep
    \/ TagStep
    \/ MergeStep
    \/ MergeFinish
    \/ PlanStep
    \/ PlanFinish
    \/ EmitStep
    \/ EmitFinish

\* The whole export on stacks with and without support layers; the overlap
\* table is at the critical area or above it throughout.
Init ==
    \/ InitOf(ColorCounts, 1 .. MaxRL, TRUE, {2}, {2}, {3}, {1}, {0, 1}, {0, 1})
    \/ InitOf(ColorCounts, 1 .. MaxRL, TRUE, {2}, {2}, {3}, {2}, {0, 1}, {0, 1})

Spec == Init /\ [][Next]_vars

\* The export of objects without support, with every overlap table, layer
\* height and safe batch height of the sets above.
InitSched ==
    \/ InitOf(ColorCounts, 1 .. MaxRL, FALSE, FirstLayerHeights, LayerHeights,
              SafeHeights, OverlapValues, {0}, {0})
    \/ InitOf({3}, {2}, FALSE, FirstLayerHeights, LayerHeights,
              SafeHeights, OverlapValues, {0}, {0})

SpecSched == InitSched /\ [][Next]_vars

\* The reference case: layer height 0.2 mm and safe batch height 0.35 mm, in
\* units of 0.05 mm.
InitRef == InitOf({3}, {0}, FALSE, {4}, {4}, {7}, OverlapValues, {0}, {0})

SpecRef == InitRef /\ [][Next]_vars

\* The export with a cancellation request arriving at any moment.
NextCancel == Next \/ Cancel

InitCancel ==
    InitOf(ColorCounts, 1 .. MaxRL, FALSE, {2}, {2}, {3}, OverlapValues, {0}, {0})

SpecCancel == InitCancel /\ [][NextCancel]_vars

\* The default export: process_layers with its parallel pipeline.
NextPipeline == Generate \/ Filter \/ PipelineFinish

InitPipeline ==
    InitAt({1}, 1 .. MaxRL, FALSE, {2}, {2}, {3}, {1}, {0}, {0},
           "process_layers", BOOLEAN, {FALSE})

SpecPipeline == InitPipeline /\ [][NextPipeline]_vars

\* The export with the switch ATC_soluble_supports of atc_process_layers
\* set: layer_batch_labeling_soluble_supports builds the Final Schedule.
InitSoluble ==
    InitAt(ColorCounts, 1 .. MaxRL, TRUE, {2}, {2}, {3}, {1}, {0, 1}, {0},
           "populate", {FALSE}, {TRUE})

SpecSoluble == InitSoluble /\ [][Next]_vars

\* The same exports when the export thread keeps running: a step that can
\* change the state is eventually taken.
FairSched == InitSched /\ [][Next]_vars /\ WF_vars(Next)

\* ============================================================== properties
\* The main loop of layer_batch_labeling has ended.
SchedulerFinished ==
    /\ pc \in {"sched", "merge", "plan", "emit", "done", "crashed"}
    /\ ~(Len(printing_map_batched) <= Len(printing_map_initial) - 1)

\* Number of entries of a list with the key (Blayer, region).
KeyCount(map, BL, R) ==
    Cardinality({ i \in 1 .. Len(map) : map[i].Blayer = BL /\ map[i].region = R })

\* Overlap area of the input between region r of object layer BL + 1 and
\* region c of object layer BL.
OverlapArea(BL, r, c) ==
    IF <<BL, r, c>> \in DOMAIN print.overlap THEN print.overlap[<<BL, r, c>>] ELSE 0

\* The node (BL, c) exists in the Node Store and is not processed.
Unprocessed(BL, c) ==
    \E i \in 1 .. Len(printing_map_initial) :
        /\ printing_map_initial[i].Blayer = BL
        /\ printing_map_initial[i].region = c
        /\ printing_map_initial[i].state = 0

\* C1: when the main loop has ended, the batched schedule holds every object
\* unit of the Node Store exactly once: every key of the store occurs once
\* in the schedule and the schedule holds nothing else.
C1_ScheduleComplete ==
    SchedulerFinished =>
        /\ \A i \in 1 .. Len(printing_map_initial) :
              KeyCount(printing_map_batched, printing_map_initial[i].Blayer,
                       printing_map_initial[i].region) = 1
        /\ \A i \in 1 .. Len(printing_map_batched) :
              KeyCount(printing_map_initial, printing_map_batched[i].Blayer,
                       printing_map_batched[i].region) = 1

\* C1 witness: the loop has ended on a schedule of four or more units of
\* two regions, one of them appended as a continuation.
C1_Witness ==
    /\ SchedulerFinished
    /\ pc = "merge"
    /\ Len(printing_map_batched) >= 4
    /\ \E i, j \in 1 .. Len(printing_map_batched) :
          /\ printing_map_batched[i].via = "cont"
          /\ printing_map_batched[i].region # printing_map_batched[j].region

\* C2: the main loop terminates: the schedule eventually holds as many
\* units as the Node Store.
C2_Terminates == <>SchedulerFinished

\* C3: whenever a step appends a unit (L+1, r) as a continuation, every
\* other region c with an unprocessed unit at layer L overlaps the candidate
\* by at most critical_intersection.
C3_SafeContinuation ==
    [][ \A i \in 1 .. Len(printing_map_batched') :
          (i > Len(printing_map_batched) /\ printing_map_batched'[i].via = "cont")
          => \A c \in 0 .. print.colors - 1 :
                (c # printing_map_batched'[i].region
                 /\ Unprocessed(printing_map_batched'[i].Blayer - 1, c))
                => OverlapArea(printing_map_batched'[i].Blayer - 1,
                               printing_map_batched'[i].region, c) <= print.critical
      ]_vars

\* C3 witness: a continuation was accepted while another region of the
\* layer below is still not processed.
C3_Witness ==
    /\ pc = "sched"
    /\ \E i \in 1 .. Len(printing_map_batched) :
          /\ printing_map_batched[i].via = "cont"
          /\ \E c \in 0 .. print.colors - 1 :
                /\ c # printing_map_batched[i].region
                /\ Unprocessed(printing_map_batched[i].Blayer - 1, c)

\* Sum of the layer heights of the entries of batch b that were appended as
\* continuations, from entry i on.
RECURSIVE ContinuationHeight(_, _)
ContinuationHeight(b, i) ==
    IF i > Len(printing_map_batched) THEN 0
    ELSE (IF printing_map_batched[i].batch = b /\ printing_map_batched[i].via = "cont"
          THEN (IF printing_map_batched[i].Blayer = 0 THEN print.first_layer_height
                ELSE print.layer_height)
          ELSE 0)
         + ContinuationHeight(b, i + 1)

\* The largest layer height of the object.
MaxLayerHeight ==
    IF print.first_layer_height > print.layer_height
    THEN print.first_layer_height ELSE print.layer_height

\* C4: in the tagged schedule, the heights of the units of one batch that
\* were accepted as continuations sum to at most the safe batch height plus
\* one layer height.
C4_HeightCap ==
    pc \in {"merge", "plan", "emit", "done"} =>
        \A i \in 1 .. Len(printing_map_batched) :
            ContinuationHeight(printing_map_batched[i].batch, 1)
                <= print.safe + MaxLayerHeight

\* Number of processed nodes of the Node Store.
ProcessedCount ==
    Cardinality({ i \in 1 .. Len(printing_map_initial) :
                    printing_map_initial[i].state = 1 })

\* C9: the processed flag of a unit never goes back from 1 to 0, the number
\* of processed units always equals the length of the schedule, and when
\* the loop has ended every unit is processed.
C9_ProcessedOnce ==
    /\ [](ProcessedCount = Len(printing_map_batched))
    /\ [](SchedulerFinished =>
            \A i \in 1 .. Len(printing_map_initial) : printing_map_initial[i].state = 1)
    /\ [][ \A i \in 1 .. Len(printing_map_initial) :
              printing_map_initial[i].state = 1 => printing_map_initial'[i].state = 1
         ]_vars

\* C9 witness: scheduling is under way with processed and unprocessed units.
C9_Witness ==
    /\ pc = "sched"
    /\ ProcessedCount >= 2
    /\ ProcessedCount < Len(printing_map_initial)
    /\ last_node = NULL

\* Number of Final Schedule entries marked need_wipe.
NeedWipeCount ==
    Cardinality({ i \in 1 .. Len(ATC_printing_map) : ATC_printing_map[i].need_wipe })

\* Number of positions at which two consecutive Final Schedule entries have
\* different regions.
RegionChanges ==
    Cardinality({ i \in 1 .. Len(ATC_printing_map) - 1 :
                    ATC_printing_map[i].region # ATC_printing_map[i + 1].region })

\* C6: after the planner, the number of need_wipe entries, the number of
\* region changes between consecutive Final Schedule entries and the
\* reported total_toolchanges are equal.
C6_ToolChangeCounts ==
    pc \in {"emit", "done"} =>
        /\ NeedWipeCount = RegionChanges
        /\ RegionChanges = total_toolchanges

C8_SupportsPlacedOnce ==
    pc \in {"plan", "emit", "done"} =>
        \A k \in 1 .. Len(support_map) :
            Cardinality({ i \in 1 .. Len(ATC_printing_map) :
                            /\ ~ATC_printing_map[i].object
                            /\ ATC_printing_map[i].Rlayer = support_map[k].Rlayer }) = 1

\* The positions of output_stream that hold a wipe-tower fragment written
\* for Final Schedule entry n (0-based).
FragmentsOf(n) ==
    { k \in 1 .. Len(output_stream) :
        output_stream[k].kind = "tcr" /\ output_stream[k].node = n }

\* C10: when the emission loop has ended, every need_wipe entry has exactly
\* one fragment, written right after the code of the entry, an entry
\* without need_wipe has none, and the number of fragments equals the
\* number of planned tool changes.
C10_FragmentPerWipe ==
    pc = "done" =>
        /\ \A n \in 0 .. Len(ATC_printing_map) - 1 :
              IF ATC_printing_map[n + 1].need_wipe
              THEN /\ Cardinality(FragmentsOf(n)) = 1
                   /\ \A k \in FragmentsOf(n) :
                         /\ k > 1
                         /\ output_stream[k - 1].kind = "gcode"
                         /\ output_stream[k - 1].node = n
              ELSE FragmentsOf(n) = {}
        /\ Cardinality({ k \in 1 .. Len(output_stream) : output_stream[k].kind = "tcr" })
              = atc_tool_change_counter

\* The order of the batched schedule as (layer, region) pairs.
ScheduleOrder ==
    [i \in 1 .. Len(printing_map_batched) |->
        <<printing_map_batched[i].Blayer, printing_map_batched[i].region>>]

\* The print is the reference case.
IsReferenceCase ==
    /\ print.colors = 3
    /\ print.layers = ReferenceStack
    /\ print.first_layer_height = 4
    /\ print.layer_height = 4
    /\ print.safe = 7

\* C5: for the reference case the scheduler outputs L0R0, L1R0, L2R0, L3R0,
\* L2R1, L3R1, L4R1, L5R1, L3R2, L4R2, L5R2, L6R2, L4R0, L5R0, L6R0, L6R1,
\* L7R2.
C5_ReferenceOrder ==
    (IsReferenceCase /\ SchedulerFinished) =>
        ScheduleOrder = << <<0, 0>>, <<1, 0>>, <<2, 0>>, <<3, 0>>,
                           <<2, 1>>, <<3, 1>>, <<4, 1>>, <<5, 1>>,
                           <<3, 2>>, <<4, 2>>, <<5, 2>>, <<6, 2>>,
                           <<4, 0>>, <<5, 0>>, <<6, 0>>, <<6, 1>>, <<7, 2>> >>

\* Every overlap of the input is at most the critical area.
NoCriticalOverlap ==
    \A t \in DOMAIN print.overlap : print.overlap[t] <= print.critical

\* C5 amended: for the reference case with no overlap above the critical
\* area the scheduler outputs L0R0, L1R0, L2R0, L3R0, L2R1, L3R1, L3R2, L4R2,
\* L4R0, L5R0, L4R1, L5R1, L5R2, L6R2, L6R0, L6R1, L7R2.
C5_ReferenceOrderAmended ==
    (IsReferenceCase /\ NoCriticalOverlap /\ SchedulerFinished) =>
        ScheduleOrder = << <<0, 0>>, <<1, 0>>, <<2, 0>>, <<3, 0>>,
                           <<2, 1>>, <<3, 1>>, <<3, 2>>, <<4, 2>>,
                           <<4, 0>>, <<5, 0>>, <<4, 1>>, <<5, 1>>,
                           <<5, 2>>, <<6, 2>>, <<6, 0>>, <<6, 1>>, <<7, 2>> >>

\* C5 witness: the scheduler has finished the reference case without
\* critical overlap.
C5_Witness ==
    /\ IsReferenceCase
    /\ NoCriticalOverlap
    /\ SchedulerFinished
    /\ pc = "merge"
    /\ Len(printing_map_batched) = 17

\* C11: a unit's code written by the driver holds a tool-change command
\* exactly when the active tool of the writer differed from the unit's
\* region when the unit was generated.
C11_ToolChangeIffDiffers ==
    \A k \in 1 .. Len(output_stream) :
        output_stream[k].kind = "gcode" =>
            (output_stream[k].toolchange
             <=> output_stream[k].old_extruder # output_stream[k].extruder)

\* C12: whenever the driver has written a unit, the main loop of the
\* scheduler has ended, the schedule holds every unit of the Node Store
\* exactly once and the planner has returned; this also holds when the
\* print was cancelled while the scheduler was running.
C12_NoPartialEmission ==
    output_stream # <<>> =>
        /\ pc \in {"emit", "done", "canceled"}
        /\ Len(printing_map_batched) = Len(printing_map_initial)
        /\ \A i \in 1 .. Len(printing_map_initial) :
              /\ printing_map_initial[i].state = 1
              /\ KeyCount(printing_map_batched, printing_map_initial[i].Blayer,
                          printing_map_initial[i].region) = 1
        /\ total_toolchanges = atc_tool_change_counter

\* C12 witness: the print was cancelled during scheduling and the driver has written units of
\* a schedule of three or more units.
C12_Witness ==
    /\ canceled
    /\ canceled_at = "sched"
    /\ pc = "emit"
    /\ Len(output_stream) >= 2
    /\ Len(printing_map_batched) >= 3

\* What the driver has written is in Final Schedule order: entry numbers
\* never decrease along the stream, a number repeats only for the fragment
\* that follows the code of its entry, and every written entry lies before
\* the entry the loop is at.
WrittenInOrder ==
    \A k \in 1 .. Len(output_stream) :
        /\ output_stream[k].node < printing_node_idx
        /\ k > 1 =>
              \/ output_stream[k - 1].node < output_stream[k].node
              \/ /\ output_stream[k - 1].node = output_stream[k].node
                 /\ output_stream[k - 1].kind = "gcode"
                 /\ output_stream[k].kind = "tcr"

\* C13: in the clustered export the units are generated and written one
\* after another in Final Schedule order: the stream is in schedule order
\* in every state, every step that writes is one iteration of the driver
\* loop that appends the code of the entry the loop is at and moves to the
\* next entry, and neither the schedule nor the plan changes while the
\* driver runs.
C13_StrictlySequential ==
    /\ []WrittenInOrder
    /\ [][output_stream' # output_stream =>
            /\ pc = "emit"
            /\ printing_node_idx' = printing_node_idx + 1
            /\ Len(output_stream') > Len(output_stream)
            /\ SubSeq(output_stream', 1, Len(output_stream)) = output_stream
            /\ \A k \in Len(output_stream) + 1 .. Len(output_stream') :
                  output_stream'[k].node = printing_node_idx]_vars
    /\ [][pc = "emit" =>
            UNCHANGED <<schedVars, ATC_printing_map, planVars>>]_vars

\* C13 witness: the driver has finished a schedule of three or more entries
\* and has written a fragment between two units.
C13_Witness ==
    /\ pc = "done"
    /\ Len(ATC_printing_map) >= 3
    /\ \E k \in 2 .. Len(output_stream) - 1 :
          /\ output_stream[k].kind = "tcr"
          /\ output_stream[k + 1].kind = "gcode"

\* C14: in the default pipeline every filter processes the layer results in
\* the order the generator produced them, under every interleaving of the
\* filters, and the output filter writes the result of every layer exactly
\* once in that order.
C14_PipelineOrder ==
    /\ \A st \in PipelineStages :
          \A i \in 1 .. Len(pipeline.log[st]) : pipeline.log[st][i] = i
    /\ \A k \in 1 .. Len(output_stream) :
          output_stream[k].kind = "layer" => output_stream[k].node = k - 1
    /\ (pc = "done" /\ pipeline.stopped) =>
          /\ Len(output_stream) = Len(print.layers)
          /\ Len(pipeline.log["output"]) = Len(print.layers)

\* C14 witness: two layer results are in flight behind different filters
\* of the five-filter pipeline while the output filter has written one.
C14_Witness ==
    /\ pc = "process_layers"
    /\ Len(PipelineOf(pipeline)) = 5
    /\ Len(output_stream) >= 1
    /\ \E t, u \in pipeline.tokens : t.at < u.at

\* No node of the Node Store has state 0.
NoUnprocessedUnit ==
    \A i \in 1 .. Len(printing_map_initial) : printing_map_initial[i].state = 1

\* C15: when the scheduler is at its loop with no unprocessed unit in the
\* Node Store (every unit scheduled, or an empty store), the next step
\* leaves the loop, the schedule keeps its entries and no unit changes.
C15_NoOpWithoutUnprocessed ==
    [][(pc = "sched" /\ NoUnprocessedUnit) =>
          /\ pc' = "merge"
          /\ printing_map_initial' = printing_map_initial
          /\ ScheduleOrder' = ScheduleOrder]_vars

\* C15 witness: the loop was left on a store of three or more units, all
\* processed.
C15_Witness ==
    /\ pc = "merge"
    /\ printing_node_idx = 0
    /\ Len(printing_map_initial) >= 3
    /\ NoUnprocessedUnit

\* The region indices of the configured colours.
ValidRegions == 0 .. print.colors - 1

Anchorable(RL) ==
    { k \in 1 .. Len(support_map) :
        support_map[k].state = 0 /\ support_map[k].Rlayer - RL <= 1 }

\* C17: a support entry of the Final Schedule stands right after an object
\* entry and is at most one layer above it (so an object entry is followed
\* by at most one support entry), and every iteration of the merger places
\* the first support node of the store that is not placed and satisfies
\* the condition, or none when there is no such node.
C17_MergerRule ==
    /\ [](\A i \in 1 .. Len(ATC_printing_map) :
            ~ATC_printing_map[i].object =>
                /\ i > 1
                /\ ATC_printing_map[i - 1].object
                /\ ATC_printing_map[i].Rlayer - ATC_printing_map[i - 1].Rlayer <= 1)
    /\ [][(pc = "merge" /\ printing_node_idx' = printing_node_idx + 1) =>
            LET RL == printing_map_batched[printing_node_idx + 1].Rlayer
                placed == { k \in 1 .. Len(support_map) :
                              support_map[k].state = 0 /\ support_map'[k].state = 1 }
            IN  IF Anchorable(RL) = {}
                THEN /\ placed = {}
                     /\ Len(ATC_printing_map') = Len(ATC_printing_map) + 1
                ELSE /\ placed = {CHOOSE k \in Anchorable(RL) :
                                     \A j \in Anchorable(RL) : k <= j}
                     /\ Len(ATC_printing_map') = Len(ATC_printing_map) + 2
                     /\ \A k \in placed :
                           ATC_printing_map'[Len(ATC_printing_map')].Rlayer
                              = support_map[k].Rlayer]_vars

\* C17 witness: the merger has finished; a support entry of the layer above
\* follows an object entry and another object entry got no support.
C17_Witness ==
    /\ pc = "plan"
    /\ \E i \in 2 .. Len(ATC_printing_map) :
          /\ ~ATC_printing_map[i].object
          /\ ATC_printing_map[i].Rlayer = ATC_printing_map[i - 1].Rlayer + 1
    /\ \E i \in 1 .. Len(ATC_printing_map) - 1 :
          ATC_printing_map[i].object /\ ATC_printing_map[i + 1].object

\* The positions of the planned requests of wipe-tower layer L.
RequestsOfLayer(L) == { k \in 1 .. Len(planned) : planned[k].layer = L }

\* C18: the planned requests are packed colorCount - 1 per wipe-tower
\* layer: the layer numbers of successive requests never decrease, every
\* layer before the last one holds exactly colorCount - 1 requests and the
\* last one at most that many.
C18_BrickPacking ==
    /\ \A k \in 1 .. Len(planned) - 1 : planned[k].layer <= planned[k + 1].layer
    /\ \A k \in 1 .. Len(planned) :
          IF planned[k].layer < planned[Len(planned)].layer
          THEN Cardinality(RequestsOfLayer(planned[k].layer)) = print.colors - 1
          ELSE Cardinality(RequestsOfLayer(planned[k].layer)) <= print.colors - 1

\* C18 witness: three colours, a full wipe-tower layer of two requests and
\* a request in the next layer.
C18_Witness ==
    /\ print.colors = 3
    /\ Len(planned) >= 3
    /\ planned[1].layer = planned[2].layer
    /\ planned[3].layer = planned[2].layer + 1

\* Number of positions at which two consecutive entries of the batched
\* schedule have different regions.
BatchedRegionChanges ==
    Cardinality({ i \in 1 .. Len(printing_map_batched) - 1 :
                    printing_map_batched[i].region # printing_map_batched[i + 1].region })

\* C19: after the batch tagging pass the first schedule entry has batch 0,
\* every later entry has the batch of its predecessor plus one when its
\* region differs from the predecessor's and the same batch otherwise, and
\* the counted number of tool changes is the number of region changes
\* between consecutive entries.
C19_BatchTagging ==
    (pc \in {"merge", "plan", "emit", "done"} /\ printing_map_batched # <<>>) =>
        /\ printing_map_batched[1].batch = 0
        /\ \A i \in 2 .. Len(printing_map_batched) :
              printing_map_batched[i].batch =
                 IF printing_map_batched[i].region # printing_map_batched[i - 1].region
                 THEN printing_map_batched[i - 1].batch + 1
                 ELSE printing_map_batched[i - 1].batch
        /\ atc_temp_tool_changes(printing_map_batched, 1, 0) = BatchedRegionChanges

\* C20: after population the Node Store holds exactly one node for every
\* object layer and region with printable perimeters, none for a region
\* without perimeters, and no key (Blayer, region) twice.
C20_Population ==
    pc # "populate" /\ pc # "process_layers" =>
        /\ \A BL \in 0 .. max_layers_in_object(print) - 1 :
              \A R \in 0 .. print.colors - 1 :
                  KeyCount(printing_map_initial, BL, R) =
                      IF R \in PerimetersAt(print.layers, BL) THEN 1 ELSE 0
        /\ \A i \in 1 .. Len(printing_map_initial) :
              /\ printing_map_initial[i].Blayer \in 0 .. max_layers_in_object(print) - 1
              /\ printing_map_initial[i].region \in 0 .. print.colors - 1
              /\ KeyCount(printing_map_initial, printing_map_initial[i].Blayer,
                          printing_map_initial[i].region) = 1

\* C20 witness: population has just run on a stack with a layer that lacks
\* the perimeters of a region, and the store holds three or more nodes.
C20_Witness ==
    /\ pc = "sched"
    /\ printing_map_batched = <<>>
    /\ Len(printing_map_initial) >= 3
    /\ \E BL \in 0 .. max_layers_in_object(print) - 1 :
          \E R \in 0 .. print.colors - 1 : R \notin PerimetersAt(print.layers, BL)

\* What the next iteration of the main loop does from the current state.
NextIteration ==
    SchedIteration(print, printing_map_initial, printing_map_batched,
                   last_node, atc_running_height)

\* An iteration of the main loop is about to start with the cursor on a
\* unit that is already in the schedule.
CursorOnScheduled ==
    /\ pc = "sched"
    /\ LoopCondition(printing_map_batched, printing_map_initial)
    /\ last_node # NULL
    /\ printing_map_initial[last_node].state = 1

\* C21: an iteration that starts with the cursor on a scheduled unit ends
\* with the candidate appended to the schedule or with the cursor cleared:
\* the cursor never stays on the same unit with the schedule unchanged.
C21_CursorReleased ==
    CursorOnScheduled =>
        \/ Len(NextIteration.batched) > Len(printing_map_batched)
        \/ NextIteration.last = NULL

\* Index of the earliest-created node of the Node Store (creation order is
\* layer-major, region-minor) whose state is 0; NULL when there is none.
EarliestUnprocessed ==
    IF \E i \in 1 .. Len(printing_map_initial) : printing_map_initial[i].state = 0
    THEN CHOOSE i \in 1 .. Len(printing_map_initial) :
            /\ printing_map_initial[i].state = 0
            /\ \A j \in 1 .. i - 1 : printing_map_initial[j].state = 1
    ELSE NULL

\* C22: an iteration of the main loop that starts with the cursor empty
\* appends, as its batch head, the earliest-created unit of the Node Store
\* whose state is 0 (and marks that unit processed).
C22_FreshHeadIsEarliest ==
    [][ (pc = "sched" /\ last_node = NULL
         /\ LoopCondition(printing_map_batched, printing_map_initial))
        => /\ EarliestUnprocessed # NULL
           /\ Len(printing_map_batched') > Len(printing_map_batched)
           /\ LET e == printing_map_batched'[Len(printing_map_batched) + 1]
                  n == printing_map_initial[EarliestUnprocessed]
              IN  /\ e.via = "head"
                  /\ e.Blayer = n.Blayer
                  /\ e.region = n.region
                  /\ e.Rlayer = n.Rlayer
           /\ printing_map_initial'[EarliestUnprocessed].state = 1
      ]_vars

\* C22 witness: the cursor was cleared and the head appended last is a unit
\* created after a unit of a higher layer index that is already scheduled,
\* so the fresh head was not simply the next unit of the schedule's layer.
C22_Witness ==
    /\ pc = "sched"
    /\ Len(printing_map_batched) >= 3
    /\ LET e == printing_map_batched[Len(printing_map_batched)]
       IN  /\ e.via = "head"
           /\ \E i \in 1 .. Len(printing_map_batched) - 1 :
                 /\ printing_map_batched[i].via = "cont"
                 /\ printing_map_batched[i].Blayer > e.Blayer

\* C23: the running height accumulator measures the active batch only:
\* whenever an iteration of the main loop is about to take a fresh batch
\* head (the cursor is empty), the accumulator is zero, so that after the
\* head append it equals the height of the head's layer.
C23_AccumulatorPerBatch ==
    (pc = "sched" /\ last_node = NULL
     /\ LoopCondition(printing_map_batched, printing_map_initial))
    => atc_running_height = 0

\* The unit an iteration of the main loop works on has no candidate: no
\* unit of its region exists one object layer above, or that layer index is
\* not below the number of object layers.
NoCandidate ==
    LET n == printing_map_initial[CurrentNode(printing_map_initial, last_node)]
    IN  \/ n.Blayer + 1 >= max_layers_in_object(print)
        \/ ~\E i \in 1 .. Len(printing_map_initial) :
               /\ printing_map_initial[i].Blayer = n.Blayer + 1
               /\ printing_map_initial[i].region = n.region

\* C24: an iteration whose unit has no candidate clears the cursor and
\* appends nothing for the candidate: the schedule grows by the unit's own
\* head append at most, no other processed flag changes, and the export
\* stays in the main loop (no error state).
C24_MissingCandidate ==
    [][ (pc = "sched"
         /\ LoopCondition(printing_map_batched, printing_map_initial)
         /\ CurrentNode(printing_map_initial, last_node) # NULL
         /\ NoCandidate)
        => LET node == CurrentNode(printing_map_initial, last_node)
               n == printing_map_initial[node]
           IN  /\ pc' = "sched"
               /\ last_node' = NULL
               /\ printing_map_batched' =
                     IF n.state = 0
                     THEN Append(printing_map_batched, BatchedEntry(n, "head"))
                     ELSE printing_map_batched
               /\ \A i \in 1 .. Len(printing_map_initial) :
                     i # node => printing_map_initial'[i] = printing_map_initial[i]
               /\ Len(printing_map_initial') = Len(printing_map_initial)
      ]_vars

\* C24 witness: the cursor was cleared, and not by the height cap (the
\* accumulator is not zero), right after a continuation whose region has no
\* unit on the next object layer although that layer exists.
C24_Witness ==
    /\ pc = "sched"
    /\ last_node = NULL
    /\ atc_running_height > 0
    /\ Len(printing_map_batched) >= 2
    /\ LET e == printing_map_batched[Len(printing_map_batched)]
       IN  /\ e.via = "cont"
           /\ e.Blayer + 1 < max_layers_in_object(print)
           /\ ~\E i \in 1 .. Len(printing_map_initial) :
                  /\ printing_map_initial[i].Blayer = e.Blayer + 1
                  /\ printing_map_initial[i].region = e.region

\* Index (1-based) of the last object entry of the Final Schedule before
\* entry i, NULL when there is none.
PrevObjectEntry(i) ==
    IF \E j \in 1 .. i - 1 : ATC_printing_map[j].object
    THEN CHOOSE j \in 1 .. i - 1 :
            /\ ATC_printing_map[j].object
            /\ \A h \in j + 1 .. i - 1 : ~ATC_printing_map[h].object
    ELSE NULL

\* The planner is about to visit an object entry whose region differs from
\* the region of the object entry before it.
AtRegionChange ==
    /\ pc = "plan"
    /\ printing_node_idx < Len(ATC_printing_map)
    /\ ATC_printing_map[printing_node_idx + 1].object
    /\ PrevObjectEntry(printing_node_idx + 1) # NULL
    /\ ATC_printing_map[PrevObjectEntry(printing_node_idx + 1)].region
          # ATC_printing_map[printing_node_idx + 1].region

\* The planner step registers exactly one request, from the region of the
\* previous object entry to the region of the current one, with the wiping
\* layer height.
OneRequestRegistered ==
    /\ pc' = "plan"
    /\ Len(planned') = Len(planned) + 1
    /\ \A k \in 1 .. Len(planned) : planned'[k] = planned[k]
    /\ LET req == planned'[Len(planned')]
       IN  /\ req.old_tool = ATC_printing_map[PrevObjectEntry(printing_node_idx + 1)].region
           /\ req.new_tool = ATC_printing_map[printing_node_idx + 1].region
           /\ req.layer_height = atc_wiping_layer_height

\* The values "the current brick index" can denote when a request is built:
\* the brick iterator before its increment, after it, after the wrap, and
\* the running number of bricks (the request's ordinal).
BrickIndexReadings ==
    { atc_wipe_plan_brick_idx, atc_wipe_plan_brick_idx + 1,
      atc_wipe_plan_brick_idx', atc_tool_change_counter + 1 }

\* C25: at each region change between consecutive object entries of the
\* Final Schedule the planner registers exactly one request with fromTool =
\* region of the previous entry, toTool = region of the current entry,
\* layerHeight = the wiping layer height and printZ = the wiping layer
\* height times the current brick index.
C25_RequestFields ==
    [][ AtRegionChange =>
          /\ OneRequestRegistered
          /\ \E b \in BrickIndexReadings :
                planned'[Len(planned')].print_z = atc_wiping_layer_height * b
      ]_vars

\* C25 amended: the same request, with printZ = the wiping layer height
\* times the wipe-tower layer counter in effect when the request is built
\* (the counter starts at 1 and advances when a tower layer is full).
C25_RequestFieldsAmended ==
    [][ AtRegionChange =>
          /\ OneRequestRegistered
          /\ planned'[Len(planned')].print_z
                = atc_wiping_layer_height * atc_wipe_plan_layer
      ]_vars

\* C25 witness: three requests are registered at region changes between
\* object entries; the first two share a tower layer (and so a printZ), the
\* third lies on the next one.
C25_Witness ==
    /\ pc = "plan"
    /\ Len(planned) = 3
    /\ planned[1].print_z = planned[2].print_z
    /\ planned[3].print_z = planned[2].print_z + atc_wiping_layer_height
    /\ planned[1].old_tool = 0
    /\ planned[3].old_tool = planned[2].new_tool
    /\ ATC_printing_map[printing_node_idx].region = planned[3].new_tool

\* layer_batch_labeling_soluble_supports has just built the Final Schedule.
SolubleLabelingDone ==
    /\ print.ATC_soluble_supports
    /\ pc = "plan"
    /\ printing_node_idx = 0
    /\ planned = <<>>

C27_AscendingPerRegion ==
    \A i, j \in 1 .. Len(printing_map_batched) :
        (i < j /\ printing_map_batched[i].region = printing_map_batched[j].region)
        => printing_map_batched[i].Blayer < printing_map_batched[j].Blayer

\* C27 witness: the loop has ended on a schedule in which a region has a
\* unit of a higher layer before a unit of another region of a lower layer,
\* and later another unit of its own, taken as a fresh head.
C27_Witness ==
    /\ SchedulerFinished
    /\ \E i, j, k \in 1 .. Len(printing_map_batched) :
          /\ i < j /\ j < k
          /\ printing_map_batched[i].region = printing_map_batched[k].region
          /\ printing_map_batched[j].region # printing_map_batched[i].region
          /\ printing_map_batched[j].Blayer < printing_map_batched[i].Blayer
          /\ printing_map_batched[k].via = "head"

\* Position (1-based) of the object unit (BL, R) in a list of entries, 0
\* when the list does not hold it.
PositionOf(map, BL, R) ==
    IF \E i \in 1 .. Len(map) : map[i].Blayer = BL /\ map[i].region = R
    THEN CHOOSE i \in 1 .. Len(map) : map[i].Blayer = BL /\ map[i].region = R
    ELSE 0

\* In the list map, every unit (L + 1, r) comes after every unit (L, c) of
\* the Node Store of another region that it overlaps by more than the
\* critical area.
OverlapOrdered(map) ==
    \A i \in 1 .. Len(map) :
        \A c \in 0 .. print.colors - 1 :
            (/\ map[i].Blayer >= 1
             /\ c # map[i].region
             /\ KeyCount(printing_map_initial, map[i].Blayer - 1, c) = 1
             /\ OverlapArea(map[i].Blayer - 1, map[i].region, c) > print.critical)
            => /\ PositionOf(map, map[i].Blayer - 1, c) # 0
               /\ PositionOf(map, map[i].Blayer - 1, c) < i

\* C28: for every pair of object units (L, c) and (L + 1, r), c # r, whose
\* overlap exceeds critical_intersection, (L, c) precedes (L + 1, r) in the
\* schedule and in the Final Schedule, whether (L + 1, r) was appended as a
\* continuation or as a batch head.
C28_OverlapOrder ==
    /\ OverlapOrdered(printing_map_batched)
    /\ OverlapOrdered(SelectSeq(ATC_printing_map, LAMBDA e : e.object))

\* C28 witness: the Final Schedule is built and holds a unit appended as a
\* continuation and a unit appended as a head that each overlap a unit of
\* another region on the layer below by more than the critical area.
C28_Witness ==
    /\ pc = "plan"
    /\ Len(ATC_printing_map) = Len(printing_map_batched)
    /\ \E i, j \in 1 .. Len(printing_map_batched) :
          /\ printing_map_batched[i].via = "cont"
          /\ printing_map_batched[j].via = "head"
          /\ \A k \in {i, j} :
                /\ printing_map_batched[k].Blayer >= 1
                /\ \E c \in 0 .. print.colors - 1 :
                      /\ c # printing_map_batched[k].region
                      /\ KeyCount(printing_map_initial,
                                  printing_map_batched[k].Blayer - 1, c) = 1
                      /\ OverlapArea(printing_map_batched[k].Blayer - 1,
                                     printing_map_batched[k].region, c) > print.critical

\* C29: the planner step that visits the first entry of the Final Schedule
\* registers no tool change and addresses no entry before the first one:
\* it leaves the requests and the need_wipe marks as they are and the
\* planner goes on, whatever the region of the first unit.
C29_NoWipeBeforeFirst ==
    [][ (pc = "plan" /\ printing_node_idx = 0
         /\ printing_node_idx < Len(ATC_printing_map))
        => /\ pc' = "plan"
           /\ planned' = planned
           /\ atc_tool_change_counter' = atc_tool_change_counter
           /\ ATC_printing_map' = ATC_printing_map
      ]_vars

\* Number of pieces written to the output that hold the extrusions of the
\* object unit (RL, R): perimeters and infill of region R of layer RL.
IslandWrites(RL, R) ==
    Cardinality({ k \in 1 .. Len(output_stream) :
                    /\ output_stream[k].kind = "gcode"
                    /\ output_stream[k].islands
                    /\ output_stream[k].Rlayer = RL
                    /\ output_stream[k].extruder = R })

\* Number of pieces written to the output that hold the support extrusions
\* of layer RL.
SupportWrites(RL) ==
    Cardinality({ k \in 1 .. Len(output_stream) :
                    /\ output_stream[k].kind = "gcode"
                    /\ output_stream[k].support
                    /\ output_stream[k].Rlayer = RL })

\* C30: when the emission walk has ended, the extrusions of every object
\* unit (layer, region) of the Node Store have been written exactly once and
\* the support extrusions of every support layer exactly once.
C30_ExtrusionsOnce ==
    pc = "done" =>
        /\ \A i \in 1 .. Len(printing_map_initial) :
              IslandWrites(printing_map_initial[i].Rlayer,
                           printing_map_initial[i].region) = 1
        /\ \A i \in 1 .. Len(support_map) :
              SupportWrites(support_map[i].Rlayer) = 1

\* The wipe-tower fragments the driver has written, in order.
TcrRecords == SelectSeq(output_stream, LAMBDA r : r.kind = "tcr")

\* The 0-based indices of the need_wipe entries of the Final Schedule, in
\* order, from entry i (1-based) on.
RECURSIVE WipeEntries(_)
WipeEntries(i) ==
    IF i > Len(ATC_printing_map) THEN <<>>
    ELSE (IF ATC_printing_map[i].need_wipe THEN << i - 1 >> ELSE <<>>)
         \o WipeEntries(i + 1)

\* C31: for every k, the k-th fragment the driver writes belongs to the
\* k-th need_wipe entry of the Final Schedule and is the fragment of the
\* k-th request of the planner: its [tower layer][brick] position is one the
\* planner filled, it holds that request, and the request's new tool is the
\* region of the entry that follows the need_wipe entry.
C31_FragmentOfRequest ==
    pc \in {"emit", "done"} =>
        \A k \in 1 .. Len(TcrRecords) :
            LET t == TcrRecords[k]
            IN  /\ k <= Len(planned)
                /\ k <= Len(WipeEntries(1))
                /\ t.node = WipeEntries(1)[k]
                /\ t.brick >= 0
                /\ t.brick < Len(tool_changes(planned, t.layer))
                /\ tool_changes(planned, t.layer)[t.brick + 1] = planned[k]
                /\ t.node + 2 <= Len(ATC_printing_map)
                /\ planned[k].new_tool = ATC_printing_map[t.node + 2].region

\* C32: in the Final Schedule no object unit of a layer more than one above
\* a support unit's layer comes before that support unit, and the support
\* units appear in ascending order of their layer.
C32_SupportOrder ==
    pc \in {"plan", "emit", "done"} =>
        \A i, j \in 1 .. Len(ATC_printing_map) :
            (i < j /\ ~ATC_printing_map[j].object)
            => IF ATC_printing_map[i].object
               THEN ATC_printing_map[i].Rlayer <= ATC_printing_map[j].Rlayer + 1
               ELSE ATC_printing_map[i].Rlayer < ATC_printing_map[j].Rlayer

====
